---- MODULE Spec2Model ----
(***************************************************************************)
(* Model of the fetch-orchestration engine of wt_event_handler:            *)
(* fetch_loop (scheduler task, statistics task, shutdown task), handle_err *)
(* and Database, as found in src/src/fetch_loop.rs and src/src/api/db.rs.  *)
(*                                                                         *)
(* Time is in seconds.  Every .await of the scheduler task and of the      *)
(* statistics task is a step boundary; what runs between two awaits is one *)
(* action.  The 24 hour timer of the statistics task is not tied to the    *)
(* modelled clock: the duration of a fetch is unbounded, so the timer may  *)
(* fire between any two steps of the scheduler.                            *)
(***************************************************************************)
EXTENDS Integers, Sequences, FiniteSets, TLC

\* ---------------------------------------------------------------- constants
FETCH_DELAY == 48
STAT_COOLDOWN_HOURS == 24
STAT_COOL_DOWN == 60 * 60 * STAT_COOLDOWN_HOURS
\* handle_err::time_out: the length of a suspension, 60 * 30 seconds
Suspension == 60 * 30

\* ------------------------------------------------------------------- bounds
\* the clock stops here
MaxTime == 2000
\* no counter of STATS is raised beyond this
MaxCount == 3
\* webhooks counted per item
MaxNotify == 2
\* visits of sources begun
MaxVisits == 3
\* wake-ups of the statistics task
MaxFlush == 1
\* urls a page may list
NumUrls == 2

\* sources.sources, in registry order
SourceList == <<"A", "B">>
Sources == {SourceList[i] : i \in 1..Len(SourceList)}
Urls == 1..NumUrls

\* time a fetch may take: none, or what brings the second next visit exactly
\* to the end of a suspension recorded in this visit
Latencies == {0, Suspension - 2 * FETCH_DELAY}

\* ------------------------------------------------------------------- errors
\* reqwest::Error: a kind, and the two properties found by walking its source
\* (a timeout under a request, body or decode error, a connect error under a
\* request error)
ReqwestKinds == {"Builder", "Redirect", "Status", "Request", "Body", "Decode", "Upgrade"}
ReqwestErrors ==
    {e \in [tag : {"Reqwest"}, kind : ReqwestKinds, timeout : BOOLEAN, connect : BOOLEAN] :
        /\ e.timeout => e.kind \in {"Request", "Body", "Decode"}
        /\ e.connect => e.kind = "Request"}
PlainTags == {"NoUrlOnPost", "MetaCannotBeScraped", "SourceTimeout", "BadSelector",
              "MonthParse", "SelectedNothing", "SerenityError", "SerdeJson", "Other"}
PlainErrors == [tag : PlainTags, kind : {"none"}, timeout : {FALSE}, connect : {FALSE}]
NewsError == ReqwestErrors \cup PlainErrors
NoErr == [tag |-> "none", kind |-> "none", timeout |-> FALSE, connect |-> FALSE]

is_builder(e) == e.kind = "Builder"
is_redirect(e) == e.kind = "Redirect"
is_status(e) == e.kind = "Status"
is_timeout(e) == e.timeout
is_request(e) == e.kind = "Request"
is_connect(e) == e.connect
is_body(e) == e.kind = "Body"
is_decode(e) == e.kind = "Decode"

VARIABLES
    hooks,      \* fetch_loop(hooks): TRUE = daemon mode, FALSE = single pass
    clock,      \* current time
    exit,       \* "running", or how the process ended
    pc,         \* position of the scheduler task
    idx,        \* position in sources.sources
    news,       \* Ok(news) of the current visit
    k,          \* position in news
    err,        \* Err(e) of the current visit
    tracked,    \* source.tracked_urls, per source
    db,         \* rows of table sources: <<source, url>>
    timeouts,   \* Timeout: source |-> resume_at
    stats,      \* STATS
    mutex,      \* owner of the STATS mutex
    fpc,        \* position of the statistics task
    report,     \* the counters sent by the post in progress
    postOk,     \* whether the post in progress reaches the notifier
    flushes,    \* wake-ups of the statistics task, in all runs of the process
    \* observations
    notified,   \* item webhooks sent, per source and url
    escN,       \* escalations emitted in the current visit
    artifact,   \* whether the current visit wrote an err_html file
    setAt,      \* time of the last time_out, per source
    visits,     \* visits per source
    total,      \* visits begun, by all runs of the process
    window,     \* increments since the last reset
    fresh,      \* increments not yet part of a report
    everNew,    \* <<source, url>> ever reported as new
    reNew,      \* <<source, url>> reported as new a second time
    overwrote,  \* whether the current visit replaced an entry of timeouts
    inflight,   \* calls of html_processor begun and not yet returned
    stayed,     \* per source, the error handled last if it left the source active
    straddled   \* whether the last reset fell between a fetch count and its outcome

vars == <<hooks, clock, exit, pc, idx, news, k, err, tracked, db, timeouts, stats,
          mutex, fpc, report, postOk, flushes, notified, escN, artifact, setAt, visits,
          total, window, fresh, everNew, reNew, overwrote, inflight, stayed, straddled>>

schedVars == <<pc, idx, news, k, err, total>>
obsVars == <<notified, escN, artifact, setAt, visits, window, fresh, everNew, reNew, overwrote>>

ZeroStats == [fetch |-> 0, new |-> 0, errors |-> 0]
NoReport == [fetch |-> -1, new |-> -1, errors |-> -1]
EmptyTable == [s \in {} |-> 0]


\* the items of a page as a Vec, in ascending order
RECURSIVE SortedSeq(_)
SortedSeq(S) ==
    IF S = {} THEN << >>
    ELSE LET m == CHOOSE x \in S : \A y \in S : x <= y
         IN <<m>> \o SortedSeq(S \ {m})

Range(q) == {q[i] : i \in 1..Len(q)}

\* ------------------------------------------------------------ Timeout table
\* Timeout::new
Timeout_new == EmptyTable

\* Timeout::is_timed_out, probed at time now
is_timed_out(table, name, now) ==
    /\ name \in DOMAIN table
    /\ table[name] > now

\* Timeout::time_out
Timeout_time_out(table, name, resume_at) ==
    [s \in (DOMAIN table) \cup {name} |-> IF s = name THEN resume_at ELSE table[s]]

\* ------------------------------------------------------------------- STATS
\* statistics::increment(Incr::...): lock, add one, unlock
increment(st, field) == [st EXCEPT ![field] = @ + 1]

\* Statistics::reset
Statistics_reset(st) == ZeroStats

\* ---------------------------------------------------------------- database
\* Database::new: the pool is opened on "sqlite::memory:"
Database_new == {}

\* Database::store_recent: one INSERT per value, in order; the first n succeed.
\* With n < Len(values) the next INSERT fails and `?` returns its error, the
\* values after it are not written
store_recent(rows, values, source, n) == rows \cup {<<source, values[i]>> : i \in 1..n}


\* Sources::build(&database): the tracked urls of every source, from the rows
Sources_build(rows) == [s \in Sources |-> {u \in Urls : <<s, u>> \in rows}]

\* Source::store_recent
Source_store_recent(tr, values) == tr \cup values

\* html_processor: the items of the fetched page the source does not track yet
html_processor(tr, page) == SortedSeq(page \ tr)

\* --------------------------------------------------------------- handle_err
\* variant: a suspension of 30 seconds
time_out_then_Seconds(now) == now + 30

\* handle_err::time_out: then = now + (60 * 30)
time_out_then(now) == now + Suspension

\* variant: an entry already recorded for the source is kept
time_out_record_KeepFirst(table, name, now) ==
    IF name \in DOMAIN table THEN table
    ELSE Timeout_time_out(table, name, time_out_then(now))

\* handle_err::time_out: timeouts.time_out(source, then)
time_out_record(table, name, now) == Timeout_time_out(table, name, time_out_then(now))

\* variant: the arm without a guard is silent like the timeout arm
ReqwestArm_NoFallback(e) ==
    IF is_builder(e) THEN "reqwest_bad_builder"
    ELSE IF is_redirect(e) THEN "reqwest_bad_redirect"
    ELSE IF is_status(e) THEN "reqwest_bad_status"
    ELSE IF is_timeout(e) THEN "reqwest_timeout"
    ELSE IF is_request(e) THEN "reqwest_bad_request"
    ELSE IF is_connect(e) THEN "reqwest_bad_connect"
    ELSE IF is_body(e) THEN "reqwest_bad_body"
    ELSE IF is_decode(e) THEN "reqwest_bad_body"
    ELSE "reqwest_timeout"

\* variant: the guard is_request stands before the guard is_timeout
ReqwestArm_RequestFirst(e) ==
    IF is_builder(e) THEN "reqwest_bad_builder"
    ELSE IF is_redirect(e) THEN "reqwest_bad_redirect"
    ELSE IF is_status(e) THEN "reqwest_bad_status"
    ELSE IF is_request(e) THEN "reqwest_bad_request"
    ELSE IF is_timeout(e) THEN "reqwest_timeout"
    ELSE IF is_connect(e) THEN "reqwest_bad_connect"
    ELSE IF is_body(e) THEN "reqwest_bad_body"
    ELSE IF is_decode(e) THEN "reqwest_bad_body"
    ELSE "reqwest_everything_bad"

\* the arm of `match ()` taken for a reqwest error, in the order of the guards
ReqwestArm(e) ==
    IF is_builder(e) THEN "reqwest_bad_builder"
    ELSE IF is_redirect(e) THEN "reqwest_bad_redirect"
    ELSE IF is_status(e) THEN "reqwest_bad_status"
    ELSE IF is_timeout(e) THEN "reqwest_timeout"
    ELSE IF is_request(e) THEN "reqwest_bad_request"
    ELSE IF is_connect(e) THEN "reqwest_bad_connect"
    ELSE IF is_body(e) THEN "reqwest_bad_body"
    ELSE IF is_decode(e) THEN "reqwest_bad_body"
    ELSE "reqwest_everything_bad"

Act(suspend, escalate, file, panic) ==
    [suspend |-> suspend, escalate |-> escalate, file |-> file, panic |-> panic]

\* variant: the webhook is never sent
time_out_Quiet(send_webhook_error_message) == Act(TRUE, 0, FALSE, FALSE)

\* handle_err::time_out(send_webhook_error_message, msg)
time_out(send_webhook_error_message) ==
    Act(TRUE, IF send_webhook_error_message THEN 1 ELSE 0, FALSE, FALSE)

\* variant: the final webhook is sent whatever hooks is
crash_and_burn_AnyMode(h) == Act(FALSE, 1, FALSE, TRUE)

\* handle_err::crash_and_burn
crash_and_burn(h) == Act(FALSE, IF h THEN 1 ELSE 0, FALSE, TRUE)

\* variant: a missing selector suspends the source like the other faults
handle_err_SelectorSuspends(e, h) ==
    CASE e.tag = "NoUrlOnPost" -> [time_out(TRUE) EXCEPT !.file = TRUE]
      [] e.tag = "MetaCannotBeScraped" -> Act(FALSE, 1, FALSE, FALSE)
      [] e.tag = "SourceTimeout" -> Act(FALSE, 0, FALSE, FALSE)
      [] e.tag = "BadSelector" -> time_out(TRUE)
      [] e.tag = "MonthParse" -> time_out(TRUE)
      [] e.tag = "SelectedNothing" -> time_out(TRUE)
      [] e.tag = "SerenityError" -> Act(FALSE, 1, FALSE, FALSE)
      [] e.tag = "Reqwest" -> time_out(ReqwestArm(e) # "reqwest_timeout")
      [] e.tag = "SerdeJson" -> Act(FALSE, 0, FALSE, TRUE)
      [] OTHER -> crash_and_burn(h)

\* handle_err: what the match does for e
handle_err(e, h) ==
    CASE e.tag = "NoUrlOnPost" -> [time_out(TRUE) EXCEPT !.file = TRUE]
      [] e.tag = "MetaCannotBeScraped" -> Act(FALSE, 1, FALSE, FALSE)
      [] e.tag = "SourceTimeout" -> Act(FALSE, 0, FALSE, FALSE)
      [] e.tag = "BadSelector" -> Act(FALSE, 1, FALSE, FALSE)
      [] e.tag = "MonthParse" -> time_out(TRUE)
      [] e.tag = "SelectedNothing" -> time_out(TRUE)
      [] e.tag = "SerenityError" -> Act(FALSE, 1, FALSE, FALSE)
      [] e.tag = "Reqwest" -> time_out(ReqwestArm(e) # "reqwest_timeout")
      [] e.tag = "SerdeJson" -> Act(FALSE, 0, FALSE, TRUE)
      [] OTHER -> crash_and_burn(h)

\* what the handled error leaves behind for a source that stays active
StayedAs(e, h) ==
    IF handle_err(e, h).suspend \/ handle_err(e, h).panic THEN "none"
    ELSE IF e.tag \in {"BadSelector", "SourceTimeout"} THEN e.tag
    ELSE "none"

\* --------------------------------------------------------------------- Init
Init ==
    /\ hooks \in BOOLEAN
    /\ clock = 0
    /\ exit = "running"
    /\ pc = "visit"
    /\ idx = 1
    /\ news = << >>
    /\ k = 1
    /\ err = NoErr
    /\ db = Database_new
    /\ tracked = Sources_build(Database_new)
    /\ timeouts = Timeout_new
    /\ stats = ZeroStats
    /\ mutex = "free"
    /\ fpc = "sleep"
    /\ report = NoReport
    /\ postOk = TRUE
    /\ flushes = 0
    /\ notified = [s \in Sources |-> [u \in Urls |-> 0]]
    /\ escN = 0
    /\ artifact = FALSE
    /\ setAt = EmptyTable
    /\ visits = [s \in Sources |-> 0]
    /\ total = 0
    /\ window = ZeroStats
    /\ fresh = ZeroStats
    /\ everNew = {}
    /\ reNew = {}
    /\ overwrote = FALSE
    /\ inflight = 0
    /\ stayed = [s \in Sources |-> "none"]
    /\ straddled = FALSE

source == SourceList[idx]

\* exit status of the process: exit(0), exit(-1), a panic
ExitCode(x) == CASE x = "exit0" -> 0 [] x = "sigint" -> -1 [] x = "panic" -> 101 [] OTHER -> -2

\* ----------------------------------------------------------- scheduler task
\* variant: the Timeout Table is not asked
Visit_NoProbe ==
    /\ exit = "running" /\ pc = "visit"
    /\ total < MaxVisits
    /\ total' = total + 1
    /\ pc' = "incFetch"
    /\ visits' = [visits EXCEPT ![source] = @ + 1]
    /\ escN' = 0
    /\ artifact' = FALSE
    /\ overwrote' = FALSE
    /\ UNCHANGED <<hooks, clock, exit, idx, news, k, err, tracked, db, timeouts, stats,
                   mutex, fpc, report, postOk, flushes, notified, setAt, window, fresh,
                   everNew, reNew, inflight, stayed, straddled>>

\* for source in &mut sources.sources { if !timeouts.is_timed_out(&source.name)
Visit ==
    /\ exit = "running" /\ pc = "visit"
    /\ total < MaxVisits
    /\ total' = total + 1
    /\ pc' = IF is_timed_out(timeouts, source, clock) THEN "sleep" ELSE "incFetch"
    /\ visits' = [visits EXCEPT ![source] = @ + 1]
    /\ escN' = 0
    /\ artifact' = FALSE
    /\ overwrote' = FALSE
    /\ UNCHANGED <<hooks, clock, exit, idx, news, k, err, tracked, db, timeouts, stats,
                   mutex, fpc, report, postOk, flushes, notified, setAt, window, fresh,
                   everNew, reNew>>
    /\ UNCHANGED <<inflight, stayed, straddled>>

\* variant: the fetch attempt is not counted
IncFetch_Uncounted ==
    /\ exit = "running" /\ pc = "incFetch"
    /\ mutex = "free"
    /\ inflight' = inflight + 1
    /\ pc' = "extract"
    /\ UNCHANGED <<hooks, clock, exit, idx, total, news, k, err, tracked, db, timeouts,
                   mutex, fpc, report, postOk, flushes, notified, escN, artifact, setAt, visits,
                   everNew, reNew, overwrote, stayed, straddled, stats, window, fresh>>

\* variant: the extraction is spawned as a task of its own and not awaited
IncFetch_Spawned ==
    /\ exit = "running" /\ pc = "incFetch"
    /\ mutex = "free"
    /\ stats.fetch < MaxCount
    /\ stats' = increment(stats, "fetch")
    /\ window' = [window EXCEPT !.fetch = @ + 1]
    /\ fresh' = [fresh EXCEPT !.fetch = @ + 1]
    /\ inflight' = inflight + 1
    /\ pc' = "sleep"
    /\ UNCHANGED <<hooks, clock, exit, idx, total, news, k, err, tracked, db, timeouts,
                   mutex, fpc, report, postOk, flushes, notified, escN, artifact, setAt, visits,
                   everNew, reNew, overwrote, stayed, straddled>>

\* increment(Incr::FetchCounter).await; html_processor(source) is called
IncFetch ==
    /\ exit = "running" /\ pc = "incFetch"
    /\ mutex = "free"
    /\ stats.fetch < MaxCount
    /\ stats' = increment(stats, "fetch")
    /\ window' = [window EXCEPT !.fetch = @ + 1]
    /\ fresh' = [fresh EXCEPT !.fetch = @ + 1]
    /\ pc' = "extract"
    /\ UNCHANGED <<hooks, clock, exit, idx, total, news, k, err, tracked, db, timeouts,
                   mutex, fpc, report, postOk, flushes, notified, escN, artifact, setAt, visits,
                   everNew, reNew, overwrote>>
    /\ inflight' = inflight + 1
    /\ UNCHANGED <<stayed, straddled>>

\* html_processor(source).await returns Ok(news)
ExtractOk ==
    /\ exit = "running" /\ pc = "extract"
    /\ \E page \in SUBSET Urls, d \in Latencies :
        /\ clock + d <= MaxTime
        /\ clock' = clock + d
        /\ news' = html_processor(tracked[source], page)
    /\ k' = 1
    /\ pc' = "items"
    /\ UNCHANGED <<hooks, exit, idx, total, err, tracked, db, timeouts, stats,
                   mutex, fpc, report, postOk, flushes>>
    /\ UNCHANGED obsVars
    /\ inflight' = inflight - 1
    /\ stayed' = [stayed EXCEPT ![source] = "none"]
    /\ UNCHANGED <<straddled>>

\* html_processor(source).await returns Err(e)
ExtractErr ==
    /\ exit = "running" /\ pc = "extract"
    /\ \E e \in NewsError, d \in Latencies :
        /\ clock + d <= MaxTime
        /\ clock' = clock + d
        /\ err' = e
    /\ pc' = "incErr"
    /\ UNCHANGED <<hooks, exit, idx, total, news, k, tracked, db, timeouts, stats,
                   mutex, fpc, report, postOk, flushes>>
    /\ UNCHANGED obsVars
    /\ inflight' = inflight - 1
    /\ stayed' = [stayed EXCEPT ![source] = "none"]
    /\ UNCHANGED <<straddled>>

\* for news_embed in &news { if hooks { source.handle_webhooks(..).await }
HandleWebhooks ==
    /\ exit = "running" /\ pc = "items"
    /\ k <= Len(news)
    /\ hooks => notified[source][news[k]] < MaxNotify
    /\ notified' = IF hooks THEN [notified EXCEPT ![source][news[k]] = @ + 1]
                   ELSE notified
    /\ pc' = "incNew"
    /\ UNCHANGED <<hooks, clock, exit, idx, total, news, k, err, tracked, db, timeouts, stats,
                   mutex, fpc, report, postOk, flushes, escN, artifact, setAt, visits,
                   window, fresh, everNew, reNew, overwrote>>
    /\ UNCHANGED <<inflight, stayed, straddled>>

\* increment(Incr::NewNews).await
IncNew ==
    /\ exit = "running" /\ pc = "incNew"
    /\ mutex = "free"
    /\ stats.new < MaxCount
    /\ stats' = increment(stats, "new")
    /\ window' = [window EXCEPT !.new = @ + 1]
    /\ fresh' = [fresh EXCEPT !.new = @ + 1]
    /\ everNew' = everNew \cup {<<source, news[k]>>}
    /\ reNew' = IF <<source, news[k]>> \in everNew THEN reNew \cup {<<source, news[k]>>}
                ELSE reNew
    /\ k' = k + 1
    /\ pc' = "items"
    /\ UNCHANGED <<hooks, clock, exit, idx, total, news, err, tracked, db, timeouts,
                   mutex, fpc, report, postOk, flushes, notified, escN, artifact, setAt, visits,
                   overwrote>>
    /\ UNCHANGED <<inflight, stayed, straddled>>

\* variant: the urls are written to the database only
StoreRecent_DatabaseOnly ==
    /\ exit = "running" /\ pc = "items"
    /\ k > Len(news)
    /\ db' = store_recent(db, news, source, Len(news))
    /\ pc' = "sleep"
    /\ UNCHANGED <<hooks, clock, exit, idx, total, news, k, err, tracked, timeouts, stats,
                   mutex, fpc, report, postOk, flushes>>
    /\ UNCHANGED obsVars
    /\ UNCHANGED <<inflight, stayed, straddled>>

\* source.store_recent(..); database.store_recent(.., &source.name).await
\* returns Ok(())
StoreRecent ==
    /\ exit = "running" /\ pc = "items"
    /\ k > Len(news)
    /\ tracked' = [tracked EXCEPT ![source] = Source_store_recent(@, Range(news))]
    /\ db' = store_recent(db, news, source, Len(news))
    /\ pc' = "sleep"
    /\ UNCHANGED <<hooks, clock, exit, idx, total, news, k, err, timeouts, stats,
                   mutex, fpc, report, postOk, flushes>>
    /\ UNCHANGED obsVars
    /\ UNCHANGED <<inflight, stayed, straddled>>

\* source.store_recent(..); database.store_recent(.., &source.name).await
\* returns Err(DatabaseError) at the INSERT after the first n; the Result is
\* dropped by fetch_loop
StoreRecentErr ==
    /\ exit = "running" /\ pc = "items"
    /\ k > Len(news)
    /\ tracked' = [tracked EXCEPT ![source] = Source_store_recent(@, Range(news))]
    /\ \E n \in 0..(Len(news) - 1) : db' = store_recent(db, news, source, n)
    /\ pc' = "sleep"
    /\ UNCHANGED <<hooks, clock, exit, idx, total, news, k, err, timeouts, stats,
                   mutex, fpc, report, postOk, flushes>>
    /\ UNCHANGED obsVars
    /\ UNCHANGED <<inflight, stayed, straddled>>

\* variant: the error is handled without being counted
IncErr_Skipped ==
    /\ exit = "running" /\ pc = "incErr"
    /\ mutex = "free"
    /\ pc' = "handle"
    /\ UNCHANGED <<hooks, clock, exit, idx, total, news, k, err, tracked, db, timeouts,
                   mutex, fpc, report, postOk, flushes, notified, escN, artifact, setAt, visits,
                   everNew, reNew, overwrote, inflight, stayed, straddled, stats, window, fresh>>

\* increment(Incr::Errors).await
IncErr ==
    /\ exit = "running" /\ pc = "incErr"
    /\ mutex = "free"
    /\ stats.errors < MaxCount
    /\ stats' = increment(stats, "errors")
    /\ window' = [window EXCEPT !.errors = @ + 1]
    /\ fresh' = [fresh EXCEPT !.errors = @ + 1]
    /\ pc' = "handle"
    /\ UNCHANGED <<hooks, clock, exit, idx, total, news, k, err, tracked, db, timeouts,
                   mutex, fpc, report, postOk, flushes, notified, escN, artifact, setAt, visits,
                   everNew, reNew, overwrote>>
    /\ UNCHANGED <<inflight, stayed, straddled>>

\* handle_err(e, source.scrape_type, source.name.clone(), &mut timeouts, hooks).await
HandleErr ==
    /\ exit = "running" /\ pc = "handle"
    /\ LET a == handle_err(err, hooks)
       IN /\ escN' = escN + a.escalate
          /\ artifact' = a.file
          /\ timeouts' = IF a.suspend THEN time_out_record(timeouts, source, clock)
                         ELSE timeouts
          /\ overwrote' = (a.suspend /\ source \in DOMAIN timeouts)
          /\ setAt' = IF a.suspend
                      THEN [s \in (DOMAIN setAt) \cup {source} |->
                               IF s = source THEN clock ELSE setAt[s]]
                      ELSE setAt
          /\ exit' = IF a.panic THEN "panic" ELSE "running"
          /\ pc' = IF a.panic THEN "done" ELSE "sleep"
    /\ UNCHANGED <<hooks, clock, idx, total, news, k, err, tracked, db, stats,
                   mutex, fpc, report, postOk, flushes, notified, visits,
                   window, fresh, everNew, reNew>>
    /\ stayed' = [stayed EXCEPT ![source] = StayedAs(err, hooks)]
    /\ UNCHANGED <<inflight, straddled>>

\* tokio::time::sleep(Duration::from_secs(FETCH_DELAY)).await; next source
Sleep ==
    /\ exit = "running" /\ pc = "sleep"
    /\ clock + FETCH_DELAY <= MaxTime
    /\ clock' = clock + FETCH_DELAY
    /\ IF idx < Len(SourceList)
       THEN idx' = idx + 1 /\ pc' = "visit"
       ELSE idx' = idx /\ pc' = "passEnd"
    /\ err' = NoErr
    /\ UNCHANGED <<hooks, exit, total, news, k, tracked, db, timeouts, stats,
                   mutex, fpc, report, postOk, flushes>>
    /\ UNCHANGED obsVars
    /\ UNCHANGED <<inflight, stayed, straddled>>

\* variant: exit(0) after the pass whatever hooks is
PassEnd_ExitAlways ==
    /\ exit = "running" /\ pc = "passEnd"
    /\ exit' = "exit0" /\ pc' = "done" /\ idx' = idx
    /\ UNCHANGED <<hooks, clock, total, news, k, err, tracked, db, timeouts, stats,
                   mutex, fpc, report, postOk, flushes>>
    /\ UNCHANGED obsVars
    /\ UNCHANGED <<inflight, stayed, straddled>>

\* variant: the loop is never left
PassEnd_Forever ==
    /\ exit = "running" /\ pc = "passEnd"
    /\ exit' = exit /\ pc' = "visit" /\ idx' = 1
    /\ UNCHANGED <<hooks, clock, total, news, k, err, tracked, db, timeouts, stats,
                   mutex, fpc, report, postOk, flushes>>
    /\ UNCHANGED obsVars
    /\ UNCHANGED <<inflight, stayed, straddled>>

\* if !hooks { exit(0); } and the next turn of loop { .. }
PassEnd ==
    /\ exit = "running" /\ pc = "passEnd"
    /\ IF hooks
       THEN exit' = exit /\ pc' = "visit" /\ idx' = 1
       ELSE exit' = "exit0" /\ pc' = "done" /\ idx' = idx
    /\ UNCHANGED <<hooks, clock, total, news, k, err, tracked, db, timeouts, stats,
                   mutex, fpc, report, postOk, flushes>>
    /\ UNCHANGED obsVars
    /\ UNCHANGED <<inflight, stayed, straddled>>

\* ---------------------------------------------------------- statistics task
\* sleep(STAT_COOL_DOWN).await; let mut stats = STATS.lock().await;
\* stats.post() sends the counters and awaits the notifier
FlushLock ==
    /\ exit = "running" /\ fpc = "sleep"
    /\ mutex = "free"
    /\ flushes < MaxFlush
    /\ flushes' = flushes + 1
    /\ mutex' = "flush"
    /\ report' = stats
    /\ postOk' \in BOOLEAN
    /\ fresh' = ZeroStats
    /\ fpc' = "posting"
    /\ UNCHANGED <<hooks, clock, exit, tracked, db, timeouts, stats,
                   notified, escN, artifact, setAt, visits, window, everNew, reNew,
                   overwrote>>
    /\ UNCHANGED schedVars
    /\ UNCHANGED <<inflight, stayed, straddled>>

\* variant: stats.reset() is missing
FlushReset_Keep ==
    /\ exit = "running" /\ fpc = "posting"
    /\ report' = NoReport
    /\ postOk' = TRUE
    /\ mutex' = "free"
    /\ fpc' = "sleep"
    /\ UNCHANGED <<hooks, clock, exit, tracked, db, timeouts, stats, flushes,
                   notified, escN, artifact, setAt, visits, window, fresh, everNew, reNew,
                   overwrote>>
    /\ UNCHANGED schedVars
    /\ UNCHANGED <<inflight, stayed, straddled>>

\* variant: stats.reset() only after a post that reached the notifier
FlushReset_IfPosted ==
    /\ exit = "running" /\ fpc = "posting"
    /\ stats' = IF postOk THEN Statistics_reset(stats) ELSE stats
    /\ window' = IF postOk THEN ZeroStats ELSE window
    /\ report' = NoReport
    /\ postOk' = TRUE
    /\ mutex' = "free"
    /\ fpc' = "sleep"
    /\ UNCHANGED <<hooks, clock, exit, tracked, db, timeouts, flushes,
                   notified, escN, artifact, setAt, visits, fresh, everNew, reNew, overwrote>>
    /\ UNCHANGED schedVars
    /\ straddled' = (pc \in {"extract", "incErr"})
    /\ UNCHANGED <<inflight, stayed>>

\* stats.post().await returns; stats.reset(); the guard is dropped at the end
\* of the loop body
FlushReset ==
    /\ exit = "running" /\ fpc = "posting"
    /\ stats' = Statistics_reset(stats)
    /\ window' = ZeroStats
    /\ report' = NoReport
    /\ postOk' = TRUE
    /\ mutex' = "free"
    /\ fpc' = "sleep"
    /\ UNCHANGED <<hooks, clock, exit, tracked, db, timeouts, flushes,
                   notified, escN, artifact, setAt, visits, fresh, everNew, reNew, overwrote>>
    /\ UNCHANGED schedVars
    /\ straddled' = (pc \in {"extract", "incErr"})
    /\ UNCHANGED <<inflight, stayed>>

\* ------------------------------------------------------------ shutdown task
\* tokio::signal::ctrl_c().await.unwrap(); exit(-1): the process is gone at
\* once, its memory and what was observed of it with it
Shutdown ==
    /\ exit = "running"
    /\ exit' = "sigint"
    /\ pc' = "done" /\ idx' = 1
    /\ news' = << >> /\ k' = 1 /\ err' = NoErr
    /\ db' = Database_new
    /\ tracked' = Sources_build(db')
    /\ timeouts' = Timeout_new
    /\ stats' = ZeroStats
    /\ mutex' = "free" /\ fpc' = "sleep" /\ report' = NoReport /\ postOk' = TRUE
    /\ notified' = [s \in Sources |-> [u \in Urls |-> 0]]
    /\ escN' = 0 /\ artifact' = FALSE /\ overwrote' = FALSE
    /\ setAt' = EmptyTable
    /\ visits' = [s \in Sources |-> 0]
    /\ window' = ZeroStats /\ fresh' = ZeroStats
    /\ everNew' = {} /\ reNew' = {}
    /\ UNCHANGED <<hooks, clock, total, flushes>>
    /\ inflight' = 0 /\ stayed' = [s \in Sources |-> "none"] /\ straddled' = FALSE

Next ==
    \/ Visit \/ IncFetch \/ ExtractOk \/ ExtractErr \/ HandleWebhooks \/ IncNew
    \/ StoreRecent \/ IncErr \/ HandleErr \/ Sleep \/ PassEnd
    \/ FlushLock \/ FlushReset
    \/ Shutdown

Spec == Init /\ [][Next]_vars

\* ------------------------------------------------------------------ restart
\* the process, having ended by exit(0) or by a panic, is started again:
\* fetch_loop runs from its top
Restart ==
    /\ exit \in {"exit0", "panic"}
    /\ exit' = "running"
    /\ pc' = "visit" /\ idx' = 1
    /\ news' = << >> /\ k' = 1 /\ err' = NoErr
    /\ db' = Database_new
    /\ tracked' = Sources_build(db')
    /\ timeouts' = Timeout_new
    /\ stats' = ZeroStats
    /\ mutex' = "free" /\ fpc' = "sleep" /\ report' = NoReport /\ postOk' = TRUE
    /\ escN' = 0 /\ artifact' = FALSE /\ overwrote' = FALSE
    /\ setAt' = EmptyTable
    /\ visits' = [s \in Sources |-> 0]
    /\ window' = ZeroStats /\ fresh' = ZeroStats
    /\ UNCHANGED <<hooks, clock, total, flushes, notified, everNew, reNew>>
    /\ inflight' = 0 /\ stayed' = [s \in Sources |-> "none"] /\ straddled' = FALSE

NextRestart == Next \/ Restart

SpecRestart == Init /\ [][NextRestart]_vars

\* -------------------------------------------------------------- daemon mode
\* the steps of the scheduler task
Scheduler ==
    \/ Visit \/ IncFetch \/ ExtractOk \/ ExtractErr \/ HandleWebhooks \/ IncNew
    \/ StoreRecent \/ IncErr \/ HandleErr \/ Sleep \/ PassEnd

\* fetch_loop(true)
InitDaemon == Init /\ hooks = TRUE

\* the runs of the daemon in which every await of the scheduler task returns
\* (the extractor, the webhooks and the sleep end, the mutex is obtained once
\* it is free) and the post of the statistics task returns
SpecDaemon ==
    InitDaemon /\ [][Next]_vars /\ WF_vars(Scheduler) /\ WF_vars(FlushReset)

\* ------------------------------------------------------- database failures
\* the runs in which an INSERT of Database::store_recent may fail
NextDb == Next \/ StoreRecentErr

SpecDb == Init /\ [][NextDb]_vars


\* =================================================================== claims
AllStats == {"fetch", "new", "errors"}

\* the scheduler task leaves position p in this step
Leaves(p) == pc = p /\ pc' # p /\ exit' # "sigint"

\* a reqwest error of kind Request whose source is a refused connection
ConnRefused(e) == e.tag = "Reqwest" /\ e.kind = "Request" /\ e.connect /\ ~e.timeout

\* source s was suspended by a time_out whose 30 minutes are not over at time p
Suspended(s, p) == s \in DOMAIN setAt /\ setAt[s] <= p /\ p < setAt[s] + 1800

\* ----------------------------------------------------------------------- C1
\* C1: over successive successful fetches of a source every item url is
\* notified at most once and counted as new at most once; in daemon mode
\* every url the source has stored was notified exactly once, and every item
\* of the current fetch already processed is a url that was not stored before.
C1_NotifiedOnce ==
    /\ \A s \in Sources, u \in Urls : notified[s][u] <= 1
    /\ reNew = {}
    /\ hooks => \A s \in Sources : \A u \in tracked[s] : notified[s][u] = 1
    /\ hooks /\ pc \in {"items", "incNew"} =>
          \A i \in 1..(k - 1) : notified[source][news[i]] = 1

\* the second fetch of A has delivered url 2 only, url 1 being stored before
C1_Witness ==
    /\ hooks /\ visits["A"] = 2 /\ source = "A" /\ pc = "sleep"
    /\ news = <<2>>
    /\ tracked["A"] = {1, 2}
    /\ notified["A"][1] = 1 /\ notified["A"][2] = 1
    /\ window.new = 2

\* ----------------------------------------------------------------------- C2
\* C2: handling a refused connection for the source records resume_at =
\* now + 1800 for it, emits exactly one escalation and leaves the process
\* running; the error counter was raised by exactly one on the way to
\* handle_err and is not touched by it; and a visit of a source whose 30
\* minutes are not over goes to the sleep without any extraction.
C2_Step ==
    /\ (Leaves("handle") /\ ConnRefused(err)) =>
          /\ source \in DOMAIN timeouts'
          /\ timeouts'[source] = clock + 1800
          /\ escN' = escN + 1
          /\ stats' = stats
          /\ exit' = "running"
    /\ Leaves("incErr") => pc' = "handle" /\ stats'.errors = stats.errors + 1
    /\ (Leaves("visit") /\ Suspended(source, clock)) => pc' = "sleep" /\ stats' = stats
    /\ pc' = "extract" => ~Suspended(SourceList[idx'], clock')

C2_ConnectionRefused == [][C2_Step]_vars

\* B has just been suspended for a refused connection
C2_Witness ==
    /\ pc = "sleep" /\ source = "B" /\ ConnRefused(err)
    /\ escN = 1
    /\ "B" \in DOMAIN timeouts /\ timeouts["B"] = clock + 1800
    /\ window.errors >= 1

C4_Probes(s) ==
    {setAt[s], setAt[s] + 1, setAt[s] + 1799, setAt[s] + 1800, setAt[s] + 1801,
     setAt[s] + 3600, clock}

\* a suspension recorded at time t reads as timed out at p iff p < t + 1800
C4_Table ==
    \A s \in DOMAIN setAt : \A p \in C4_Probes(s) :
        p >= setAt[s] => (is_timed_out(timeouts, s, p) <=> p < setAt[s] + 1800)

\* the probe of line 85 skips the source iff its 30 minutes are not over
C4_Probe ==
    (Leaves("visit") /\ source \in DOMAIN setAt) =>
        (pc' = "sleep" <=> clock < setAt[source] + 1800)

\* C4: after time_out(s, t + 1800) at time t, is_timed_out(s) is true at
\* every probe time in [t, t + 1800) and false from t + 1800 on, the entry
\* staying in the table.
C4_Expiry == []C4_Table /\ [][C4_Probe]_vars

\* a source is probed exactly at its resume_at and is fetched again
C4_Witness ==
    /\ pc = "incFetch"
    /\ source \in DOMAIN setAt /\ source \in DOMAIN timeouts
    /\ clock = setAt[source] + 1800

\* ----------------------------------------------------------------------- C5
\* C5: a time_out leaves one entry for the source, holding the new
\* resume_at = now + 1800 whatever was recorded before, and changes no entry
\* of another source.
C5_Overwrite ==
    [][(Leaves("handle") /\ handle_err(err, hooks).suspend) =>
          timeouts' = [s \in (DOMAIN timeouts) \cup {source} |->
                          IF s = source THEN clock + 1800 ELSE timeouts[s]]]_vars

\* a second time_out of a source has replaced its expired entry
C5_Witness ==
    /\ overwrote /\ pc = "sleep"
    /\ timeouts[source] = clock + 1800
    /\ clock >= 1800

\* ----------------------------------------------------------------------- C6
\* C6: no (source, url) pair is reported as new a second time, restarts of
\* the process included.
C6_Durable == reNew = {}

\* ----------------------------------------------------------------------- C7
\* C7: the flush reports as new-item count the number of increments since
\* the last reset (three after three increments), and the count in memory is
\* 0 right after the flush.
C7_ReadAndReset ==
    /\ [](fpc = "posting" => report.new = window.new)
    /\ [][(fpc = "posting" /\ fpc' = "sleep") => stats'.new = 0]_vars

C7_Witness == fpc = "posting" /\ report.new = 3 /\ window.new = 3 /\ stats.new = 3

C9_MutexFreeDuringPost == fpc = "posting" => mutex = "free"

\* ---------------------------------------------------------------------- C10
\* C10: in single pass mode no source is visited twice, exit status 0 is
\* reached only with every source visited exactly once, and the end of the
\* pass is left by exit(0) only.
C10_SinglePass ==
    /\ [](~hooks => \A s \in Sources : visits[s] <= 1)
    /\ [](ExitCode(exit) = 0 => (~hooks /\ \A s \in Sources : visits[s] = 1))
    /\ [][(~hooks /\ Leaves("passEnd")) => ExitCode(exit') = 0]_vars

C10_Witness == exit = "exit0" /\ ~hooks /\ \A s \in Sources : visits[s] = 1

\* ---------------------------------------------------------------------- C11
\* C11: in daemon mode the process leaves Running only by handling an
\* Unclassified error (escalate and terminate) or by the shutdown signal; no
\* error of the closed taxonomy ends it.
C11_TerminationPaths ==
    [][(hooks /\ exit = "running" /\ exit' # "running") =>
          \/ exit' = "sigint"
          \/ pc = "handle" /\ err.tag = "Other" /\ exit' = "panic"]_vars

\* ---------------------------------------------------------------------- C12
\* C12: at most one call of the extractor is in flight, and one is in flight
\* exactly while the scheduler task awaits html_processor, whatever the
\* statistics task does meanwhile.
C12_Serialized ==
    /\ inflight <= 1
    /\ inflight = 1 <=> (exit = "running" /\ pc = "extract")

\* the second fetch of the run is in flight while the statistics task posts
C12_Witness == inflight = 1 /\ fpc = "posting" /\ window.fetch = 2 /\ source = "B"

\* ---------------------------------------------------------------------- C13
\* the step in which database.store_recent returns an error
C13_WriteFails ==
    /\ Leaves("items") /\ pc' = "sleep"
    /\ db' # store_recent(db, news, source, Len(news))

\* C13: a write error of Database::store_recent after a successful fetch
\* leaves the process running, the scheduler goes on to the next source, and
\* one escalation is emitted for the failure.
C13_WriteErrorEscalated ==
    [][C13_WriteFails => (exit' = "running" /\ pc' = "sleep" /\ escN' = escN + 1)]_vars

\* ---------------------------------------------------------------------- C14
\* C14: every reqwest error that is not a timeout (builder, redirect, status,
\* request, connect, body, decode, any other) is mapped to the one action
\* suspend-and-escalate whatever the run mode, and handling it records
\* resume_at = now + 1800 for the source, emits exactly one escalation, writes
\* no artifact and leaves the process running.
C14_NetworkSuspends ==
    [][(Leaves("handle") /\ err.tag = "Reqwest" /\ ~is_timeout(err)) =>
          /\ \A h \in BOOLEAN : handle_err(err, h) = Act(TRUE, 1, FALSE, FALSE)
          /\ source \in DOMAIN timeouts'
          /\ timeouts'[source] = clock + 1800
          /\ escN' = escN + 1
          /\ ~artifact'
          /\ exit' = "running" /\ pc' = "sleep"]_vars

\* an error of none of the kinds asked for has suspended the source
C14_Witness ==
    /\ pc = "sleep" /\ err.tag = "Reqwest" /\ err.kind = "Upgrade"
    /\ escN = 1
    /\ source \in DOMAIN timeouts /\ timeouts[source] = clock + 1800

\* ---------------------------------------------------------------------- C15
\* C15: handling a reqwest error that is a timeout records resume_at =
\* now + 1800 for the source and emits no escalation, also when the error is
\* a request error or a connect error as well.
C15_TimeoutQuiet ==
    [][(Leaves("handle") /\ err.tag = "Reqwest" /\ is_timeout(err)) =>
          /\ source \in DOMAIN timeouts'
          /\ timeouts'[source] = clock + 1800
          /\ escN' = escN
          /\ exit' = "running" /\ pc' = "sleep"]_vars

\* a timeout while connecting, which is a request and a connect error too
C15_Witness ==
    /\ pc = "sleep" /\ err.tag = "Reqwest"
    /\ is_timeout(err) /\ is_request(err) /\ is_connect(err)
    /\ escN = 0
    /\ source \in DOMAIN timeouts /\ timeouts[source] = clock + 1800

\* ---------------------------------------------------------------------- C16
\* C16: handling a missing selector emits one escalation and handling a
\* recurring suspension notice emits none; both leave the Timeout Table as it
\* is and the process running, and the next visit of that source fetches it.
C16_StaysActive ==
    [][/\ (Leaves("handle") /\ err.tag = "BadSelector") =>
             (escN' = escN + 1 /\ timeouts' = timeouts /\ exit' = "running" /\ pc' = "sleep")
       /\ (Leaves("handle") /\ err.tag = "SourceTimeout") =>
             (escN' = escN /\ timeouts' = timeouts /\ exit' = "running" /\ pc' = "sleep")
       /\ (Leaves("visit") /\ stayed[source] # "none") => pc' = "incFetch"]_vars

\* A is fetched again in the pass after its missing selector, B having
\* failed with a suspension notice in between
C16_Witness ==
    /\ pc = "incFetch" /\ source = "A" /\ visits["A"] = 2
    /\ stayed["A"] = "BadSelector" /\ stayed["B"] = "SourceTimeout"
    /\ timeouts = EmptyTable

\* ---------------------------------------------------------------------- C17
\* C17: the visit of a source whose suspension is not over goes straight to
\* the sleep: no extraction starts, the counters, the Timeout Table and the
\* clock stay as they are; the sleep that ends every visit adds exactly
\* FETCH_DELAY to the clock and changes neither counters nor table; and an
\* extraction starts only after the fetch counter was raised.
C17_SkippedVisit ==
    [][/\ (Leaves("visit") /\ is_timed_out(timeouts, source, clock)) =>
             /\ pc' = "sleep"
             /\ inflight' = 0
             /\ stats' = stats /\ timeouts' = timeouts /\ clock' = clock
       /\ Leaves("sleep") =>
             /\ clock' = clock + FETCH_DELAY
             /\ inflight' = 0
             /\ stats' = stats /\ timeouts' = timeouts
       /\ (pc' = "extract" /\ pc # "extract") =>
             (pc = "incFetch" /\ stats'.fetch = stats.fetch + 1)]_vars

\* the second visit of A is skipped: two fetches were counted in three visits
C17_Witness ==
    /\ pc = "sleep" /\ source = "A" /\ visits["A"] = 2
    /\ is_timed_out(timeouts, "A", clock)
    /\ err = NoErr /\ inflight = 0
    /\ window.fetch = 2 /\ flushes = 0

\* ---------------------------------------------------------------------- C18
\* the model ends here: a bound of the model, not the program, keeps the
\* scheduler task from its next step
C18_Horizon ==
    \/ pc = "visit" /\ total >= MaxVisits
    \/ pc = "incFetch" /\ stats.fetch >= MaxCount
    \/ pc = "incNew" /\ stats.new >= MaxCount
    \/ pc = "incErr" /\ stats.errors >= MaxCount
    \/ pc = "items" /\ k <= Len(news) /\ notified[source][news[k]] >= MaxNotify
    \/ pc = "extract" /\ clock > MaxTime
    \/ pc = "sleep" /\ clock + FETCH_DELAY > MaxTime

\* escalate-and-terminate or shutdown has occurred
C18_Ended == exit \in {"panic", "sigint"}

\* the sources before the current one, and the current one once its visit
\* has begun, were visited once more than the others
C18_InOrder ==
    (exit \in {"running", "panic"}) =>
        \E p \in 0..MaxVisits : \A i \in 1..Len(SourceList) :
            visits[SourceList[i]] =
                p + (IF i < idx \/ (i = idx /\ pc # "visit") THEN 1 ELSE 0)

\* source s is fetched at a visit at which its suspension is over
C18_Resumed(s) ==
    /\ pc = "incFetch" /\ source = s
    /\ s \in DOMAIN timeouts /\ clock >= timeouts[s]

C19_Original == stats.errors <= stats.fetch

\* C19 as amended: the error counter is at most the fetch-attempt counter,
\* except that it may exceed it by one when the last reset of the counters
\* fell between the fetch-attempt increment of a visit and its outcome; it
\* never exceeds it by more than one.
C19_Amended ==
    /\ stats.errors <= stats.fetch + (IF straddled THEN 1 ELSE 0)
    /\ stats.errors <= stats.fetch + 1

\* the flush has reset the counters while the fetch was in flight, and the
\* fetch has failed since
C19_Witness == straddled /\ stats.errors = 1 /\ stats.fetch = 0 /\ pc = "handle"

\* ---------------------------------------------------------------------- C20
\* what the success path writes: item webhooks, the new-item counter, the
\* tracked urls of the sources and the rows of the database
C20_Frame ==
    /\ notified' = notified /\ everNew' = everNew
    /\ stats'.new = stats.new
    /\ tracked' = tracked /\ db' = db

\* C20: from the failure of the extraction to the end of the visit no step
\* of the scheduler sends an item webhook or changes the new-item counter,
\* the tracked urls or the database; the error counter is raised by exactly
\* one, before handle_err runs, for every error, and by nothing else in the
\* visit.
C20_FailedExtraction ==
    [][/\ (Leaves("extract") /\ pc' = "incErr") => (C20_Frame /\ stats' = stats)
       /\ Leaves("incErr") =>
             (C20_Frame /\ pc' = "handle" /\ stats' = increment(stats, "errors"))
       /\ (pc' = "handle" /\ pc # "handle") => pc = "incErr"
       /\ Leaves("handle") =>
             (C20_Frame /\ stats' = stats /\ pc' \in {"sleep", "done"})
       /\ (Leaves("sleep") /\ err # NoErr) => (C20_Frame /\ stats' = stats)]_vars

\* after two new items of A, the fetch of B has failed on the silent path
C20_Witness ==
    /\ hooks /\ pc = "sleep" /\ source = "B" /\ err.tag = "SourceTimeout"
    /\ window.errors = 1 /\ window.new = 2 /\ window.fetch = 2
    /\ tracked = [s \in Sources |-> IF s = "A" THEN {1, 2} ELSE {}]
    /\ db = {<<"A", 1>>, <<"A", 2>>}
    /\ \A u \in Urls : notified["B"][u] = 0

====
